---- MODULE Spec2Model ----
(***************************************************************************)
(* Verification model of uv-metrics' reporter/reader backends:             *)
(*   uv/sql/reporter.py   SQLReporter, SQLReader (relational backend)      *)
(*   uv/reporter/store.py NullReporter, LambdaReporter, MemoryReporter     *)
(*   uv/fs/reader.py      FSReader                                         *)
(* The backends share no state ("no component depends on any sibling       *)
(* backend"), so a behaviour exercises one backend, chosen in Init.        *)
(***************************************************************************)
EXTENDS Integers, Sequences, FiniteSets, TLC

\* ------------------------------------------------------------- bounds
\* report_all calls that may commit on the relational store.
MaxBatches == 2
\* Values one key of the memory backend's mapping may hold.
MaxSeries == 2
\* Readers obtained from one MemoryReporter.
MaxReaders == 2
\* Lines one file of the file backend may hold.
MaxLines == 2
\* close() calls made on one component.
MaxCloses == 2

\* ------------------------------------------------------------- inputs
Backends == {"sql", "memory", "fs", "null", "lambda"}
\* (experiment.id, run_id) pairs of the reporters/readers on one store:
\* two runs of experiment 1, and one run of experiment 2.
Scopes == {<<1, 1>>, <<1, 2>>, <<2, 1>>}
\* Tags in the store's collation order (ORDER BY tag compares by rank).
TagOrder == <<"acc", "loss">>
Tags == {TagOrder[i] : i \in 1..Len(TagOrder)}
Steps == {2, 5}
\* Metric values: floats (SQLReporter._metric declares v: float), which a
\* REAL column stores exactly.
Values == {1, 2}
\* The dicts m passed to report_all: the empty dict, every one-key dict, and
\* the dicts that give the tags different values.
Maps == {m \in UNION {[D -> Values] : D \in SUBSET Tags} :
           \A j \in DOMAIN m, k \in DOMAIN m : j # k => m[j] # m[k]}

VARIABLES backend,   \* the backend this behaviour exercises
          metrics,   \* the committed rows of table 'metrics', in id order
          session,   \* the reporter's session between add_all and commit
          outcome,   \* how the last SQLReporter.report_all ended
          reported,  \* ghost: the report_all calls that returned normally
          heap,      \* the dict objects of the memory backend, by reference
          memRef,    \* MemoryReporter._m: a reference into heap
          memReaders, \* the readers MemoryReporter.reader() has returned
          memReported, \* ghost: values reported per key since the last clear
          lam,       \* the LambdaReporter: constructor arguments and state
          lamCall,   \* ghost: the report/report_all call in progress or last
          lamStack,  \* the frames of that call still to run
          lamTrace,  \* the calls it has made to the supplied functions
          fsFiles,   \* the files of the FSReader's filesystem, by path
          nullWritten, \* ghost: the keys written to the NullReporter
          store,     \* whether the sqlite file of the engine exists
          sqlObjects, \* the SQLReporter / SQLReader objects constructed
          lastCtor,  \* ghost: the last SQL constructor call and how it ended
          closeCalls, \* ghost: the close() calls made, per component
          released,  \* how often each component's handle was released
          lastRead   \* ghost: the last call made on a SQLReader

sqlVars == <<metrics, session, outcome, reported>>
memVars == <<heap, memRef, memReaders, memReported>>
lamVars == <<lam, lamCall, lamStack, lamTrace>>
fsVars == <<fsFiles>>
nullVars == <<nullWritten>>
lifeVars == <<store, sqlObjects, lastCtor, closeCalls, released, lastRead>>

\* The components that own a handle: the reporter's engine, the reader's
\* filesystem, the close function supplied to a LambdaReporter.
Components == {"SQLReporter", "FSReader", "LambdaReporter"}
NoCtor == [kind |-> "none"]
NoRead == [op |-> "none"]

\* ------------------------------------------------ Python object shapes
\* A number and a dict are distinct Python objects; they are modelled as
\* records of different shape so that they compare unequal.
PyNum(v) == [num |-> v]
PyPoint(s, v) == [step |-> s, value |-> v]

\* Occurrences of x in sequence s.
Count(x, s) == Cardinality({i \in 1..Len(s) : s[i] = x})

\* ---------------------------------------------- relational backend
NoSession == [open |-> FALSE]

TagRank(t) == CHOOSE i \in 1..Len(TagOrder) : TagOrder[i] = t

\* m.items(): the (key, value) pairs of the dict, as a sequence.  The order
\* of the pairs only fixes the ids of the batch's rows, which no query reads.
RECURSIVE ItemsFrom(_, _)
ItemsFrom(m, i) ==
  IF i > Len(TagOrder) THEN <<>>
  ELSE (IF TagOrder[i] \in DOMAIN m
          THEN <<            <<TagOrder[i], m[TagOrder[i]]>> >>
          ELSE <<>>) \o ItemsFrom(m, i + 1)
Items(m) == ItemsFrom(m, 1)

\* SQLReporter._metric with the scope forgotten: every row is stamped with
\* run 1 (mutant).
MetricRunDropped(r, step, k, v) ==
  [experiment_id |-> r[1], run_id |-> 1, step |-> step, tag |-> k, value |-> v]

\* SQLReporter._metric: a Metric tied to the reporter's experiment and run.
Metric(r, step, k, v) ==
  [experiment_id |-> r[1], run_id |-> r[2], step |-> step, tag |-> k,
   value |-> v]

\* SQLReporter.report_all, line 103: [self._metric(step, k, v) for k, v in
\* m.items()].
NewRows(r, step, m) ==
  [i \in 1..Len(Items(m)) |-> Metric(r, step, Items(m)[i][1], Items(m)[i][2])]

\* session.commit() succeeding: the rows the transaction makes visible.
Flush(pending) == pending

\* A failing commit that leaves the rows flushed before the failure in the
\* table (mutant).
RollbackKeepsFirst(pending) ==
  IF pending = <<>> THEN <<>> ELSE <<pending[1]>>

\* session.commit() failing: the transaction is rolled back, no row stays.
Rollback(pending) == SubSeq(pending, 1, 0)

\* The rows as stored: the primary key id is assigned in insertion order and
\* the ghost field batch numbers the report_all call the row came from.
Stored(rows, firstId, b) ==
  [i \in 1..Len(rows) |->
     [id |-> firstId + i - 1, batch |-> b,
      experiment_id |-> rows[i].experiment_id, run_id |-> rows[i].run_id,
      step |-> rows[i].step, tag |-> rows[i].tag, value |-> rows[i].value]]

\* u.sqlite_file_exists(engine): whether the file of the engine's url is
\* there.
SqliteFileExists(s) == s = "present"

\* The constructors without their existence check (mutant).
SQLCtorRejectsNothing(s) == FALSE

\* SQLReporter.__init__ and SQLReader.__init__, first statement:
\* if not u.sqlite_file_exists(engine): raise Exception(...).
SQLCtorRejects(s) == ~SqliteFileExists(s)

\* create_tables: Base.metadata.create_all(engine) creates the tables, and
\* with them the sqlite file.
CreateTables ==
  /\ backend = "sql"
  /\ store = "absent"
  /\ store' = "present"
  /\ UNCHANGED <<backend, sqlVars, memVars, lamVars, fsVars, nullVars,
                 sqlObjects, lastCtor, closeCalls, released, lastRead>>

\* SQLReporter.__init__: raises, or keeps the engine, the experiment, the
\* run id and a session factory.  Nothing is sent to the store.
SQLReporterInit ==
  /\ backend = "sql"
  /\ "SQLReporter" \notin sqlObjects
  /\ sqlObjects' = IF SQLCtorRejects(store) THEN sqlObjects
                   ELSE sqlObjects \cup {"SQLReporter"}
  /\ lastCtor' = [kind |-> "SQLReporter", raised |-> SQLCtorRejects(store),
                  store |-> store]
  /\ UNCHANGED <<backend, sqlVars, memVars, lamVars, fsVars, nullVars,
                 store, closeCalls, released, lastRead>>

\* SQLReader.__init__: the same check, then the same four fields.
SQLReaderInit ==
  /\ backend = "sql"
  /\ "SQLReader" \notin sqlObjects
  /\ sqlObjects' = IF SQLCtorRejects(store) THEN sqlObjects
                   ELSE sqlObjects \cup {"SQLReader"}
  /\ lastCtor' = [kind |-> "SQLReader", raised |-> SQLCtorRejects(store),
                  store |-> store]
  /\ UNCHANGED <<backend, sqlVars, memVars, lamVars, fsVars, nullVars,
                 store, closeCalls, released, lastRead>>

\* report_all, lines 102-103: a session is made and the batch's rows are
\* added to it; nothing is sent to the store before commit.
SQLReportAllAdd(r, step, m) ==
  /\ backend = "sql"
  /\ "SQLReporter" \in sqlObjects
  /\ ~session.open
  /\ Len(reported) < MaxBatches
  /\ session' = [open |-> TRUE, scope |-> r, step |-> step, m |-> m,
                 new |-> NewRows(r, step, m)]
  /\ outcome' = "running"
  /\ UNCHANGED <<backend, lifeVars,
                 metrics, reported, memVars, lamVars, fsVars, nullVars>>

\* report_all, line 104: session.commit() succeeds and report_all returns.
SQLCommit ==
  /\ backend = "sql"
  /\ session.open
  /\ metrics' = metrics \o Stored(Flush(session.new), Len(metrics) + 1,
                                  Len(reported) + 1)
  /\ reported' = Append(reported, [scope |-> session.scope,
                                   step |-> session.step, m |-> session.m])
  /\ session' = NoSession
  /\ outcome' = "ok"
  /\ UNCHANGED <<backend, lifeVars, memVars, lamVars, fsVars, nullVars>>

\* report_all, line 104: session.commit() raises; the exception propagates
\* to the caller and report_all is not tried again.
SQLCommitFail ==
  /\ backend = "sql"
  /\ session.open
  /\ metrics' = metrics \o Stored(Rollback(session.new), Len(metrics) + 1,
                                  Len(reported) + 1)
  /\ session' = NoSession
  /\ outcome' = "error"
  /\ UNCHANGED <<backend, lifeVars,
                 reported, memVars, lamVars, fsVars, nullVars>>

\* ------------------------------------------------------------ queries
\* Lexicographic <= on integer tuples of equal length.
RECURSIVE LexLeq(_, _)
LexLeq(a, b) ==
  \/ a = <<>>
  \/ a[1] < b[1]
  \/ a[1] = b[1] /\ LexLeq(Tail(a), Tail(b))

\* ORDER BY: every enumeration of the row set S in ascending key order.  SQL
\* leaves the order of rows with equal keys open, so the result is the set
\* of all the orders the store may produce.
RECURSIVE OrderBy(_, _)
OrderBy(S, key) ==
  IF S = {} THEN {<<>>}
  ELSE UNION {{<<x>> \o t : t \in OrderBy(S \ {x}, key)} :
                x \in {y \in S : \A z \in S : LexLeq(key[y], key[z])}}

\* filter_by(experiment_id=self._experiment.id, run_id=self._run_id): the
\* ids of the rows a reader of scope r selects from.
InScope(r) ==
  {i \in 1..Len(metrics) :
     metrics[i].experiment_id = r[1] /\ metrics[i].run_id = r[2]}

\* SQLReader.keys without DISTINCT: the tag of every row of the scope, one
\* per row (mutant).
SQLKeysPerRow(r) ==
  LET S == InScope(r)
  IN  {[j \in 1..Len(o) |-> metrics[o[j]].tag] :
         o \in OrderBy(S, [i \in S |-> <<>>])}

\* SQLReader.keys: SELECT DISTINCT tag over the scope, in any order.
SQLKeys(r) ==
  LET tags == {metrics[i].tag : i \in InScope(r)}
  IN  OrderBy(tags, [t \in tags |-> <<>>])

\* SQLReader.read over a table where a later row of the same tag and step
\* replaces the earlier one (last write wins; mutant).
SQLReadLastPerStep(r, k) ==
  LET S == {i \in InScope(r) :
              /\ metrics[i].tag = k
              /\ \A j \in InScope(r) :
                    metrics[j].tag = k /\ metrics[j].step = metrics[i].step
                      => j <= i}
  IN  {[j \in 1..Len(o) |-> PyPoint(metrics[o[j]].step, metrics[o[j]].value)] :
         o \in OrderBy(S, [i \in S |-> <<metrics[i].step>>])}

\* SQLReader.read with the rows in insertion (id) order (mutant).
SQLReadUnordered(r, k) ==
  LET S == {i \in InScope(r) : metrics[i].tag = k}
  IN  {[j \in 1..Len(o) |-> PyPoint(metrics[o[j]].step, metrics[o[j]].value)] :
         o \in OrderBy(S, [i \in S |-> <<i>>])}

\* SQLReader.read: (step, value) of the rows of the scope with tag = k,
\* ORDER BY step, each as a {"step", "value"} record.  The set of the lists
\* the call may return.
SQLRead(r, k) ==
  LET S == {i \in InScope(r) : metrics[i].tag = k}
  IN  {[j \in 1..Len(o) |-> PyPoint(metrics[o[j]].step, metrics[o[j]].value)] :
         o \in OrderBy(S, [i \in S |-> <<metrics[i].step>>])}

\* itertools.groupby(rows, lambda t: t[0]): the maximal runs of consecutive
\* rows with the same tag, in order.
RECURSIVE GroupBy(_)
GroupBy(rows) ==
  IF rows = <<>> THEN <<>>
  ELSE LET k == rows[1][1]
           stop == {i \in 1..Len(rows) : rows[i][1] # k}
           n == IF stop = {} THEN Len(rows)
                ELSE (CHOOSE i \in stop : \A j \in stop : i <= j) - 1
       IN  <<[key |-> k, group |-> SubSeq(rows, 1, n)]>>
             \o GroupBy(SubSeq(rows, n + 1, Len(rows)))

\* SQLReader._values: the group's rows as {"step", "value"} records.
ValuesOf(group) ==
  [j \in 1..Len(group) |-> PyPoint(group[j][2], group[j][3])]

\* {k: self._values(group) for k, group in groupby(...)}: a later group of
\* the same key replaces an earlier one.
DictOfGroups(groups) ==
  [k \in {groups[i].key : i \in 1..Len(groups)} |->
     LET last == CHOOSE i \in 1..Len(groups) :
                   /\ groups[i].key = k
                   /\ \A j \in 1..Len(groups) : groups[j].key = k => j <= i
     IN  ValuesOf(groups[last].group)]

\* The read_all query ordered by step alone (mutant).
ReadAllKeyStepOnly(row) == <<row.step>>

\* order_by(Metric.tag, Metric.step): the sort key of a row of read_all.
ReadAllKey(row) == <<TagRank(row.tag), row.step>>

\* SQLReader.read_all without .filter(Metric.tag.in_(ks)) (mutant).
SQLReadAllNoFilter(r, ks) ==
  LET S == InScope(r)
  IN  {DictOfGroups(GroupBy([j \in 1..Len(o) |->
          <<metrics[o[j]].tag, metrics[o[j]].step, metrics[o[j]].value>>])) :
         o \in OrderBy(S, [i \in S |-> ReadAllKey(metrics[i])])}

\* SQLReader.read_all: (tag, step, value) of the rows of the scope with tag
\* IN ks, ORDER BY tag, step, grouped by tag in one pass.  The set of the
\* dicts the call may return.
SQLReadAll(r, ks) ==
  LET S == {i \in InScope(r) : metrics[i].tag \in ks}
  IN  {DictOfGroups(GroupBy([j \in 1..Len(o) |->
          <<metrics[o[j]].tag, metrics[o[j]].step, metrics[o[j]].value>>])) :
         o \in OrderBy(S, [i \in S |-> ReadAllKey(metrics[i])])}

\* A SQLReader query that inserts a row for every requested tag the scope
\* has no row of (get-or-create; mutant).
QueryGetOrCreate(rows, r, ks) ==
  LET missing == {k \in ks :
                    ~\E i \in 1..Len(rows) :
                       /\ rows[i].experiment_id = r[1]
                       /\ rows[i].run_id = r[2]
                       /\ rows[i].tag = k}
  IN  rows \o Stored(NewRows(r, 2, [k \in missing |-> 1]), Len(rows) + 1, 0)

\* The table after a SQLReader call for the tags ks: keys, read and
\* read_all only build session.query(...) SELECTs and never add to, change
\* or commit through their session.
AfterQuery(rows, r, ks) == rows

\* The scope the model's SQLReader was constructed with.
ReaderScope == <<1, 1>>

\* Ghost: the tags among ks that the reader's scope holds no row of.
UnknownTo(r, ks) == {k \in ks : \A i \in InScope(r) : metrics[i].tag # k}

\* A caller runs SQLReader.keys() to the end.
SQLReaderKeys ==
  /\ backend = "sql"
  /\ "SQLReader" \in sqlObjects
  /\ metrics' = AfterQuery(metrics, ReaderScope, {})
  /\ lastRead' = [op |-> "keys", unknown |-> FALSE]
  /\ UNCHANGED <<backend, session, outcome, reported, memVars, lamVars,
                 fsVars, nullVars, store, sqlObjects, lastCtor, closeCalls,
                 released>>

\* A caller runs SQLReader.read(k).
SQLReaderRead(k) ==
  /\ backend = "sql"
  /\ "SQLReader" \in sqlObjects
  /\ metrics' = AfterQuery(metrics, ReaderScope, {k})
  /\ lastRead' = [op |-> "read", unknown |-> UnknownTo(ReaderScope, {k}) # {}]
  /\ UNCHANGED <<backend, session, outcome, reported, memVars, lamVars,
                 fsVars, nullVars, store, sqlObjects, lastCtor, closeCalls,
                 released>>

\* A caller runs SQLReader.read_all(ks).
SQLReaderReadAll(ks) ==
  /\ backend = "sql"
  /\ "SQLReader" \in sqlObjects
  /\ metrics' = AfterQuery(metrics, ReaderScope, ks)
  /\ lastRead' = [op |-> "read_all",
                  unknown |-> UnknownTo(ReaderScope, ks) # {}]
  /\ UNCHANGED <<backend, session, outcome, reported, memVars, lamVars,
                 fsVars, nullVars, store, sqlObjects, lastCtor, closeCalls,
                 released>>

\* ------------------------------------------------------ memory backend
EmptyDict == [k \in {} |-> <<>>]

\* MemoryReporter.report_all inserting each value at the front of its list
\* (mutant).
MemStorePrepends(d, step, m) ==
  [k \in DOMAIN d \cup DOMAIN m |->
     IF k \in DOMAIN m
       THEN <<PyNum(m[k])>> \o (IF k \in DOMAIN d THEN d[k] ELSE <<>>)
       ELSE d[k]]

\* MemoryReporter.report_all appending every value twice (mutant).
MemStoreTwice(d, step, m) ==
  [k \in DOMAIN d \cup DOMAIN m |->
     IF k \in DOMAIN m
       THEN (IF k \in DOMAIN d THEN d[k] ELSE <<>>)
              \o <<PyNum(m[k]), PyNum(m[k])>>
       ELSE d[k]]

\* MemoryReporter.report_all: for k, v in m.items():
\* self._m.setdefault(k, []).append(v).  The step is not stored.
MemStore(d, step, m) ==
  [k \in DOMAIN d \cup DOMAIN m |->
     IF k \in DOMAIN m
       THEN Append(IF k \in DOMAIN d THEN d[k] ELSE <<>>, PyNum(m[k]))
       ELSE d[k]]

\* clear() rebinding the attribute to a fresh dict, self._m = {} (mutant).
MemClearRebinds(h, ref) ==
  [heap |-> Append(h, EmptyDict), ref |-> Len(h) + 1]

\* MemoryReporter.clear: self._m.clear() empties the dict in place.
MemClearEffect(h, ref) ==
  [heap |-> [h EXCEPT ![ref] = EmptyDict], ref |-> ref]

\* MemoryReporter.reader: MemoryReader(self._m) is given the reporter's own
\* dict object.
MemReaderEffect(h, ref) ==
  [heap |-> h, ref |-> ref]

\* Ghost: every reader obtained so far has now seen a later mutation.
Tailed(readers) ==
  [i \in 1..Len(readers) |-> [ref |-> readers[i].ref, tailed |-> TRUE]]

MemReportAll(step, m) ==
  /\ backend = "memory"
  /\ \A k \in DOMAIN m :
       k \in DOMAIN heap[memRef] => Len(heap[memRef][k]) < MaxSeries
  /\ heap' = [heap EXCEPT ![memRef] = MemStore(heap[memRef], step, m)]
  /\ memReported' =
       [k \in DOMAIN memReported \cup DOMAIN m |->
          IF k \in DOMAIN m
            THEN Append(IF k \in DOMAIN memReported THEN memReported[k]
                        ELSE <<>>, PyPoint(step, m[k]))
            ELSE memReported[k]]
  /\ memReaders' = Tailed(memReaders)
  /\ UNCHANGED <<backend, lifeVars,
                 memRef, sqlVars, lamVars, fsVars, nullVars>>

MemClear ==
  /\ backend = "memory"
  /\ heap' = MemClearEffect(heap, memRef).heap
  /\ memRef' = MemClearEffect(heap, memRef).ref
  /\ memReported' = EmptyDict
  /\ memReaders' = Tailed(memReaders)
  /\ UNCHANGED <<backend, lifeVars, sqlVars, lamVars, fsVars, nullVars>>

MemReader ==
  /\ backend = "memory"
  /\ Len(memReaders) < MaxReaders
  /\ heap' = MemReaderEffect(heap, memRef).heap
  /\ memReaders' = Append(memReaders,
                          [ref |-> MemReaderEffect(heap, memRef).ref,
                           tailed |-> FALSE])
  /\ UNCHANGED <<backend, lifeVars,
                 memRef, memReported, sqlVars, lamVars, fsVars,
                 nullVars>>

\* MemoryReader.keys: the keys of the backing mapping.
MemKeys(ref) == DOMAIN heap[ref]

\* MemoryReader.read: the list stored under k, or an empty list.
MemRead(ref, k) ==
  IF k \in DOMAIN heap[ref]
    THEN [i \in 1..Len(heap[ref][k]) |-> heap[ref][k][i]]
    ELSE <<>>

\* ------------------------------------------------------ LambdaReporter
\* A supplied function is modelled by whether it was supplied (TRUE) or is
\* None (FALSE), and by the record of the calls made to it (lamTrace).
NoCall == [op |-> "none"]

\* The constructor's check written with `or` (mutant).
LambdaRejectsEither(report, report_all) == ~report \/ ~report_all

\* The constructor without its check (mutant).
LambdaRejectsNothing(report, report_all) == FALSE

\* LambdaReporter.__init__, line 53: report is None and report_all is None.
LambdaRejects(report, report_all) == ~report /\ ~report_all

\* LambdaReporter.__init__: raises ValueError, or stores the three functions.
LambdaInit(report, report_all, close) ==
  /\ backend = "lambda"
  /\ lam.state = "new"
  /\ lam' = [state |-> IF LambdaRejects(report, report_all)
                         THEN "ValueError" ELSE "ready",
             report |-> report, report_all |-> report_all, close |-> close]
  /\ UNCHANGED <<backend, lifeVars,
                 lamCall, lamStack, lamTrace, sqlVars, memVars,
                 fsVars, nullVars>>

\* A caller invokes reporter.report(step, k, v).
LambdaReport(step, k, v) ==
  /\ backend = "lambda"
  /\ lam.state = "ready"
  /\ lamStack = <<>>
  /\ lamCall' = [op |-> "report", step |-> step, k |-> k, v |-> v]
  /\ lamStack' = <<[f |-> "LambdaReporter.report", step |-> step,
                    m |-> (k :> v)]>>
  /\ lamTrace' = <<>>
  /\ UNCHANGED <<backend, lifeVars, lam, sqlVars, memVars, fsVars, nullVars>>

\* A caller invokes reporter.report_all(step, m).
LambdaReportAll(step, m) ==
  /\ backend = "lambda"
  /\ lam.state = "ready"
  /\ lamStack = <<>>
  /\ lamCall' = [op |-> "report_all", step |-> step, m |-> m]
  /\ lamStack' = <<[f |-> "LambdaReporter.report_all", step |-> step,
                    m |-> m]>>
  /\ lamTrace' = <<>>
  /\ UNCHANGED <<backend, lifeVars, lam, sqlVars, memVars, fsVars, nullVars>>

\* The frame on top of the stack runs function f.
Running(f) == lamStack # <<>> /\ lamStack[1].f = f

\* The stack with its top frame replaced by the frames fs.
Replaced(fs) == fs \o Tail(lamStack)

\* LambdaReporter.report, lines 67-71: the supplied report, or the base
\* class's report.
LambdaReportBody ==
  /\ backend = "lambda"
  /\ Running("LambdaReporter.report")
  /\ IF lam.report
       THEN /\ lamTrace' = Append(lamTrace,
                   [fn |-> "report", step |-> lamStack[1].step,
                    m |-> lamStack[1].m])
            /\ lamStack' = Replaced(<<>>)
       ELSE /\ lamStack' = Replaced(<<[lamStack[1] EXCEPT
                                        !.f = "AbstractReporter.report"]>>)
            /\ UNCHANGED lamTrace
  /\ UNCHANGED <<backend, lifeVars,
                 lam, lamCall, sqlVars, memVars, fsVars, nullVars>>

\* LambdaReporter.report_all, lines 61-65: the supplied report_all, or the
\* base class's report_all.
LambdaReportAllBody ==
  /\ backend = "lambda"
  /\ Running("LambdaReporter.report_all")
  /\ IF lam.report_all
       THEN /\ lamTrace' = Append(lamTrace,
                   [fn |-> "report_all", step |-> lamStack[1].step,
                    m |-> lamStack[1].m])
            /\ lamStack' = Replaced(<<>>)
       ELSE /\ lamStack' = Replaced(<<[lamStack[1] EXCEPT
                                        !.f = "AbstractReporter.report_all"]>>)
            /\ UNCHANGED lamTrace
  /\ UNCHANGED <<backend, lifeVars,
                 lam, lamCall, sqlVars, memVars, fsVars, nullVars>>

\* AbstractReporter.report: self.report_all(step, {k: v}).
BaseReport ==
  /\ backend = "lambda"
  /\ Running("AbstractReporter.report")
  /\ lamStack' = Replaced(<<[lamStack[1] EXCEPT
                               !.f = "LambdaReporter.report_all"]>>)
  /\ UNCHANGED <<backend, lifeVars,
                 lam, lamCall, lamTrace, sqlVars, memVars, fsVars,
                 nullVars>>

\* AbstractReporter.report_all: self.report(step, k, v) for each k, v of m.
BaseReportAll ==
  /\ backend = "lambda"
  /\ Running("AbstractReporter.report_all")
  /\ lamStack' = Replaced(
       [i \in 1..Len(Items(lamStack[1].m)) |->
          [f |-> "LambdaReporter.report", step |-> lamStack[1].step,
           m |-> (Items(lamStack[1].m)[i][1] :> Items(lamStack[1].m)[i][2])]])
  /\ UNCHANGED <<backend, lifeVars,
                 lam, lamCall, lamTrace, sqlVars, memVars, fsVars,
                 nullVars>>

\* --------------------------------------------------------- file backend
\* uv.fs.util.jsonl_path: the file of key k is <k>.jsonl.
JsonlPath(k) == <<k, "jsonl">>
Paths == {JsonlPath(k) : k \in Tags}
\* A line of a file: the JSON text of an object, or text that is not JSON.
JsonLine(obj) == [json |-> TRUE, obj |-> obj]
Junk == [json |-> FALSE]
Lines == {JsonLine(PyPoint(2, 1)), JsonLine(PyNum(1)), Junk}
NoFile == [exists |-> FALSE, lines |-> <<>>]

\* A writer outside this code appends one line to the file of key k,
\* creating the file.
FSAppend(k, line) ==
  /\ backend = "fs"
  /\ Len(fsFiles[JsonlPath(k)].lines) < MaxLines
  /\ fsFiles' = [fsFiles EXCEPT ![JsonlPath(k)] =
                   [exists |-> TRUE, lines |-> Append(@.lines, line)]]
  /\ UNCHANGED <<backend, lifeVars, sqlVars, memVars, lamVars, nullVars>>

\* A writer outside this code creates the file of key k with no line in it.
FSCreate(k) ==
  /\ backend = "fs"
  /\ ~fsFiles[JsonlPath(k)].exists
  /\ fsFiles' = [fsFiles EXCEPT ![JsonlPath(k)] =
                   [exists |-> TRUE, lines |-> <<>>]]
  /\ UNCHANGED <<backend, lifeVars, sqlVars, memVars, lamVars, nullVars>>

\* FSReader.read with the except clause missing: the ResourceNotFound of
\* open() propagates (mutant).
FSReadAbsentRaises(k) ==
  LET file == fsFiles[JsonlPath(k)]
  IN  IF ~file.exists THEN [raised |-> "ResourceNotFound", value |-> <<>>]
      ELSE IF \E i \in 1..Len(file.lines) : ~file.lines[i].json
        THEN [raised |-> "JSONDecodeError", value |-> <<>>]
        ELSE [raised |-> "none",
              value |-> [i \in 1..Len(file.lines) |-> file.lines[i].obj]]

\* FSReader.read skipping the lines json.loads rejects instead of raising
\* (mutant).
FSReadSkipsBad(k) ==
  LET file == fsFiles[JsonlPath(k)]
      IsJson(l) == l.json
      good == SelectSeq(file.lines, IsJson)
  IN  [raised |-> "none", value |-> [i \in 1..Len(good) |-> good[i].obj]]

\* FSReader.read: [] when open() raises ResourceNotFound; otherwise every
\* line is decoded, and a line json.loads rejects raises out of the call.
FSRead(k) ==
  LET file == fsFiles[JsonlPath(k)]
  IN  IF ~file.exists THEN [raised |-> "none", value |-> <<>>]
      ELSE IF \E i \in 1..Len(file.lines) : ~file.lines[i].json
        THEN [raised |-> "JSONDecodeError", value |-> <<>>]
        ELSE [raised |-> "none",
              value |-> [i \in 1..Len(file.lines) |-> file.lines[i].obj]]

\* --------------------------------------------------------- NullReporter
\* NullReporter.report: return None.
NullReport(step, k, v) ==
  /\ backend = "null"
  /\ nullWritten' = nullWritten \cup {k}
  /\ UNCHANGED <<backend, lifeVars, sqlVars, memVars, lamVars, fsVars>>

\* NullReporter.report_all: return None.
NullReportAll(step, m) ==
  /\ backend = "null"
  /\ nullWritten' = nullWritten \cup DOMAIN m
  /\ UNCHANGED <<backend, lifeVars, sqlVars, memVars, lamVars, fsVars>>

\* EmptyReader.keys, of the reader NullReporter.reader() returns.
NullKeys == <<>>

\* EmptyReader.read.
NullRead(k) == [raised |-> "none", value |-> <<>>]

\* NullReporter.reader() handing out a reader over what was reported
\* (mutant).
NullReaderRemembers == [keys |-> nullWritten, records |-> <<PyNum(1)>>]

\* NullReporter.reader: return rs.EmptyReader(), which holds no key and no
\* record whatever was reported.
NullReader == [keys |-> {}, records |-> <<>>]

\* NullReporter.reader().keys(): the keys of the EmptyReader.
NullReaderKeys ==
  IF NullReader.keys = {} THEN NullKeys
  ELSE [i \in 1..Len(TagOrder) |-> TagOrder[i]]

\* NullReporter.reader().read(k): the read of the EmptyReader.
NullReaderRead(k) ==
  IF k \in NullReader.keys
    THEN [raised |-> "none", value |-> NullReader.records]
    ELSE NullRead(k)

\* ---------------------------------------------------------------- close
\* SQLReporter.close: the class defines no close, so the call runs the
\* default of AbstractReporter, which does nothing; the engine and the
\* session factory stay as they are.
SQLReporterClose ==
  /\ backend = "sql"
  /\ "SQLReporter" \in sqlObjects
  /\ closeCalls["SQLReporter"] < MaxCloses
  /\ closeCalls' = [closeCalls EXCEPT !["SQLReporter"] = @ + 1]
  /\ UNCHANGED <<backend, sqlVars, memVars, lamVars, fsVars, nullVars,
                 store, sqlObjects, lastCtor, released, lastRead>>

\* FSReader.close: self._fs.close().  The filesystem object releases its
\* resources on the first close and ignores a later one.
FSReaderClose ==
  /\ backend = "fs"
  /\ closeCalls["FSReader"] < MaxCloses
  /\ closeCalls' = [closeCalls EXCEPT !["FSReader"] = @ + 1]
  /\ released' = [released EXCEPT !["FSReader"] = IF @ = 0 THEN 1 ELSE @]
  /\ UNCHANGED <<backend, sqlVars, memVars, lamVars, fsVars, nullVars,
                 store, sqlObjects, lastCtor, lastRead>>

\* LambdaReporter.close: if self._close is not None: self._close().  The
\* supplied function is called by every close().
LambdaClose ==
  /\ backend = "lambda"
  /\ lam.state = "ready"
  /\ closeCalls["LambdaReporter"] < MaxCloses
  /\ closeCalls' = [closeCalls EXCEPT !["LambdaReporter"] = @ + 1]
  /\ released' = [released EXCEPT !["LambdaReporter"] =
                    IF lam.close THEN @ + 1 ELSE @]
  /\ UNCHANGED <<backend, sqlVars, memVars, lamVars, fsVars, nullVars,
                 store, sqlObjects, lastCtor, lastRead>>

\* ------------------------------------------------------- specification
\* The backends' data before any call, whatever has been constructed.
DataInit ==
  /\ backend \in Backends
  /\ metrics = <<>>
  /\ session = NoSession
  /\ outcome = "none"
  /\ reported = <<>>
  /\ heap = <<EmptyDict>>
  /\ memRef = 1
  /\ memReaders = <<>>
  /\ memReported = EmptyDict
  /\ lam = [state |-> "new", report |-> FALSE, report_all |-> FALSE,
            close |-> FALSE]
  /\ lamCall = NoCall
  /\ lamStack = <<>>
  /\ lamTrace = <<>>
  /\ fsFiles = [p \in Paths |-> NoFile]
  /\ nullWritten = {}
  /\ lastCtor = NoCtor
  /\ closeCalls = [c \in Components |-> 0]
  /\ released = [c \in Components |-> 0]
  /\ lastRead = NoRead

\* Every component constructed, over an existing store.
Init ==
  /\ DataInit
  /\ store = "present"
  /\ sqlObjects = {"SQLReporter", "SQLReader"}

SQLNext ==
  \/ \E r \in Scopes, step \in Steps, m \in Maps : SQLReportAllAdd(r, step, m)
  \/ SQLCommit
  \/ SQLCommitFail

MemNext ==
  \/ \E step \in Steps, m \in Maps : MemReportAll(step, m)
  \/ MemClear
  \/ MemReader

LambdaNext ==
  \/ \E r \in BOOLEAN, ra \in BOOLEAN, c \in BOOLEAN : LambdaInit(r, ra, c)
  \/ \E step \in Steps, k \in Tags, v \in Values : LambdaReport(step, k, v)
  \/ \E step \in Steps, m \in Maps : LambdaReportAll(step, m)
  \/ LambdaReportBody
  \/ LambdaReportAllBody
  \/ BaseReport
  \/ BaseReportAll

FSNext ==
  \/ \E k \in Tags, line \in Lines : FSAppend(k, line)
  \/ \E k \in Tags : FSCreate(k)

NullNext ==
  \/ \E step \in Steps, k \in Tags, v \in Values : NullReport(step, k, v)
  \/ \E step \in Steps, m \in Maps : NullReportAll(step, m)

Next == SQLNext \/ MemNext \/ LambdaNext \/ FSNext \/ NullNext

vars == <<backend, sqlVars, memVars, lamVars, fsVars, nullVars, lifeVars>>

Spec == Init /\ [][Next]_vars

\* A SQLReporter with the SQLReader its reader() returns, and a
\* MemoryReporter with its readers: the reporter writes to the scope the
\* reader reads.
SQLReaderNext ==
  \/ SQLReaderKeys
  \/ \E k \in Tags : SQLReaderRead(k)
  \/ \E ks \in SUBSET Tags : SQLReaderReadAll(ks)
ReadsInit == Init /\ backend \in {"sql", "memory"}
ReadsNext ==
  \/ \E step \in Steps, m \in Maps : SQLReportAllAdd(ReaderScope, step, m)
  \/ SQLCommit
  \/ SQLCommitFail
  \/ SQLReaderNext
  \/ MemNext
SpecReads == ReadsInit /\ [][ReadsNext]_vars

\* The SQL backend from before its store exists: create_tables and the two
\* constructors may be called in any order.
CtorInit ==
  /\ DataInit
  /\ backend = "sql"
  /\ store = "absent"
  /\ sqlObjects = {}
CtorNext ==
  \/ CreateTables
  \/ SQLReporterInit
  \/ SQLReaderInit
  \/ SQLNext
SpecCtor == CtorInit /\ [][CtorNext]_vars

\* Every backend with the close() calls of the components that own a
\* handle.
CloseNext ==
  \/ Next
  \/ SQLReporterClose
  \/ FSReaderClose
  \/ LambdaClose
SpecClose == Init /\ [][CloseNext]_vars

\* A LambdaReporter alone.  A call of report or report_all is an ordinary
\* synchronous Python call: once entered, each function on the call stack
\* runs its next step, hence weak fairness of the four bodies.
LambdaOnlyInit == Init /\ backend = "lambda"
SpecLambdaFair ==
  /\ LambdaOnlyInit
  /\ [][LambdaNext]_vars
  /\ WF_vars(LambdaReportBody)
  /\ WF_vars(LambdaReportAllBody)
  /\ WF_vars(BaseReport)
  /\ WF_vars(BaseReportAll)

\* ---------------------------------------------------------------- claims
\* Ghost views of the report_all calls that returned normally.
Range(q) == {q[i] : i \in 1..Len(q)}
BatchesOf(r, k, n) ==
  {i \in 1..n : reported[i].scope = r /\ k \in DOMAIN reported[i].m}
WrittenKeys(r) == {k \in Tags : BatchesOf(r, k, Len(reported)) # {}}
ReportedPoints(r, k) ==
  {PyPoint(reported[i].step, reported[i].m[k]) :
     i \in BatchesOf(r, k, Len(reported))}
NReported(r, k, p, n) ==
  Cardinality({i \in BatchesOf(r, k, n) :
                 PyPoint(reported[i].step, reported[i].m[k]) = p})
Points == {PyPoint(s, v) : s \in Steps, v \in Values}
Ascending(o) == \A i \in 1..Len(o), j \in 1..Len(o) :
                  i < j => o[i].step <= o[j].step
Empty == [raised |-> "none", value |-> <<>>]

\* C1: read(k) of a key never written in the reader's scope returns an empty
\* series and raises nothing, for SQLReader, FSReader and the reader of
\* NullReporter, whatever other keys have been written.
C1_UnwrittenKeyReadsEmpty ==
  /\ \A r \in Scopes : \A k \in Tags \ WrittenKeys(r) : SQLRead(r, k) = {<<>>}
  /\ \A k \in Tags : ~fsFiles[JsonlPath(k)].exists => FSRead(k) = Empty
  /\ \A k \in Tags \ nullWritten : NullRead(k) = Empty

\* C1 witness: the file of one key has lines, the file of another key was
\* never written, and reading the latter gives the empty list.
C1_Witness ==
  /\ backend = "fs"
  /\ fsFiles[JsonlPath("acc")].exists
  /\ Len(fsFiles[JsonlPath("acc")].lines) = 2
  /\ ~fsFiles[JsonlPath("loss")].exists
  /\ FSRead("loss") = Empty

\* C2 (as amended): after report_all(s, m) returns, read(t) of each key t of
\* m holds the reported point once per report of it: the record {step: s,
\* value: v} in the relational backend, the bare value v in the memory
\* backend, which does not store the step.
C2_ReportedOnceReadOnce ==
  /\ outcome = "ok" =>
       LET n == Len(reported)
           B == reported[n]
       IN  \A t \in DOMAIN B.m : \A o \in SQLRead(B.scope, t) :
             Count(PyPoint(B.step, B.m[t]), o)
               = NReported(B.scope, t, PyPoint(B.step, B.m[t]), n - 1) + 1
  /\ \A t \in DOMAIN memReported : \A v \in Values :
       Count(PyNum(v), MemRead(memRef, t))
         = Cardinality({i \in 1..Len(memReported[t]) :
                          memReported[t][i].value = v})

\* C2 witness: the same value was reported twice under one key of the memory
\* backend, at different steps, and read returns it twice.
C2_Witness ==
  /\ backend = "memory"
  /\ \E t \in DOMAIN memReported :
       /\ Len(memReported[t]) = 2
       /\ memReported[t][1].value = memReported[t][2].value
       /\ memReported[t][1].step # memReported[t][2].step
       /\ Len(MemRead(memRef, t)) = 2

\* C2 as stated: in both backends read(t) holds the record {step: s,
\* value: v} once per report of it.
C2_Original ==
  /\ outcome = "ok" =>
       LET n == Len(reported)
           B == reported[n]
       IN  \A t \in DOMAIN B.m : \A o \in SQLRead(B.scope, t) :
             Count(PyPoint(B.step, B.m[t]), o)
               = NReported(B.scope, t, PyPoint(B.step, B.m[t]), n - 1) + 1
  /\ \A t \in DOMAIN memReported : \A p \in Range(memReported[t]) :
       Count(p, MemRead(memRef, t))
         = Cardinality({i \in 1..Len(memReported[t]) : memReported[t][i] = p})

\* C3: keys(), read(k) and read_all(ks) of a reader of scope r return the
\* data reported under r, all of it and nothing reported under another
\* run_id or experiment_id.
C3_ScopeIsolation ==
  \A r \in Scopes :
    /\ \A o \in SQLKeys(r) : Range(o) = WrittenKeys(r)
    /\ \A k \in Tags : \A o \in SQLRead(r, k) : Range(o) = ReportedPoints(r, k)
    /\ \A ks \in SUBSET Tags : \A d \in SQLReadAll(r, ks) :
         /\ DOMAIN d \subseteq ks
         /\ \A k \in ks :
              (IF k \in DOMAIN d THEN Range(d[k]) ELSE {})
                = ReportedPoints(r, k)

\* C3 witness: two runs of one experiment have reported different points
\* under the same tag.
C3_Witness ==
  \E r1 \in Scopes, r2 \in Scopes, k \in Tags :
    /\ r1[1] = r2[1] /\ r1[2] # r2[2]
    /\ ReportedPoints(r1, k) # {}
    /\ ReportedPoints(r2, k) # {}
    /\ ReportedPoints(r1, k) # ReportedPoints(r2, k)
    /\ SQLRead(r1, k) # SQLRead(r2, k)

\* The (tag, value) pairs of batch b at step s that a reader of scope r can
\* select.
VisibleOfBatch(r, b) ==
  {<<metrics[i].tag, metrics[i].step, metrics[i].value>> :
     i \in {j \in InScope(r) : metrics[j].batch = b}}

\* C4: a reader sees all rows of a report_all batch or none: every row in
\* the table belongs to a call that returned, every such call has all of its
\* rows in the table, once each, and a call whose commit failed has ended
\* with the error and left no row.
C4_BatchAtomic ==
  /\ \A i \in 1..Len(metrics) : metrics[i].batch \in 1..Len(reported)
  /\ \A b \in 1..Len(reported) :
       /\ Cardinality({i \in 1..Len(metrics) : metrics[i].batch = b})
            = Cardinality(DOMAIN reported[b].m)
       /\ \A r \in Scopes :
            VisibleOfBatch(r, b) =
              IF r = reported[b].scope
                THEN {<<k, reported[b].step, reported[b].m[k]>> :
                        k \in DOMAIN reported[b].m}
                ELSE {}
  /\ outcome = "error" => ~session.open
  /\ session.open => outcome = "running"

\* C4 witness: a two-row batch is committed and the commit of a later call
\* has failed.
C4_Witness ==
  /\ outcome = "error"
  /\ \E b \in 1..Len(reported) : Cardinality(DOMAIN reported[b].m) = 2
  /\ Len(metrics) = 2

\* C5: every list read(k) may return, and every list in a dict read_all(ks)
\* may return, is in ascending step order.
C5_StepAscending ==
  \A r \in Scopes :
    /\ \A k \in Tags : \A o \in SQLRead(r, k) : Ascending(o)
    /\ \A ks \in SUBSET Tags : \A d \in SQLReadAll(r, ks) :
         \A k \in DOMAIN d : Ascending(d[k])

\* C5 witness: step 5 was reported before step 2 for the same tag and scope.
C5_Witness ==
  /\ Len(reported) = 2
  /\ reported[1].scope = reported[2].scope
  /\ reported[1].step = 5 /\ reported[2].step = 2
  /\ "acc" \in DOMAIN reported[1].m \cap DOMAIN reported[2].m
  /\ \A o \in SQLRead(reported[1].scope, "acc") : o[1].step = 2

\* C6: for each key k in the result of read_all(ks), the lists read_all may
\* return under k are exactly the lists read(k) may return (the same points,
\* in step order; ORDER BY leaves the order of equal steps open).
C6_ReadAllAgreesWithRead ==
  \A r \in Scopes : \A ks \in SUBSET Tags : \A k \in ks :
    LET A == {d[k] : d \in {e \in SQLReadAll(r, ks) : k \in DOMAIN e}}
    IN  A # {} => A = SQLRead(r, k)

\* C6 witness: one scope holds both tags, one of them at two steps that
\* enclose a step of the other.
C6_Witness ==
  \E r \in Scopes :
    /\ ReportedPoints(r, "loss") # {}
    /\ Cardinality({p.step : p \in ReportedPoints(r, "acc")}) = 2
    /\ \A d \in SQLReadAll(r, Tags) : DOMAIN d = Tags /\ Len(d["acc"]) = 2

\* C7: the keys of read_all(ks) are exactly the requested keys that have a
\* row in the reader's scope, and none of them maps to an empty list.
C7_ReadAllKeys ==
  \A r \in Scopes : \A ks \in SUBSET Tags : \A d \in SQLReadAll(r, ks) :
    /\ DOMAIN d = {k \in ks : \E i \in InScope(r) : metrics[i].tag = k}
    /\ \A k \in DOMAIN d : d[k] # <<>>

\* C7 witness: a scope has rows of "acc" and another scope only rows of
\* "loss"; read_all of both keys returns "acc" alone, and read_all of
\* "loss" alone returns the empty dict.
C7_Witness ==
  \E r \in Scopes, r2 \in Scopes :
    /\ WrittenKeys(r) = {"acc"}
    /\ WrittenKeys(r2) = {"loss"}
    /\ \A d \in SQLReadAll(r, Tags) : DOMAIN d = {"acc"}
    /\ SQLReadAll(r, {"loss"}) = {EmptyDict}

\* C8: read(t) returns one point per (step, value) reported for t in the
\* scope, with multiplicity: values reported at the same step are all kept.
C8_AllValuesRetained ==
  \A r \in Scopes : \A k \in Tags : \A o \in SQLRead(r, k) :
    /\ \A p \in Points : Count(p, o) = NReported(r, k, p, Len(reported))
    /\ Len(o) = Cardinality(BatchesOf(r, k, Len(reported)))

\* C8 witness: two values were reported for one tag at one step in one
\* scope, by separate calls.
C8_Witness ==
  /\ Len(reported) = 2
  /\ reported[1].scope = reported[2].scope
  /\ reported[1].step = reported[2].step
  /\ "loss" \in DOMAIN reported[1].m \cap DOMAIN reported[2].m
  /\ reported[1].m["loss"] # reported[2].m["loss"]
  /\ \A o \in SQLRead(reported[1].scope, "loss") : Len(o) = 2

\* C9: LambdaReporter's constructor raises ValueError exactly when both
\* report and report_all are None, and then there is no reporter to call;
\* with only report_all supplied, report(step, k, v) calls the supplied
\* report_all once, with (step, {k: v}), and nothing else.
C9_LambdaConstruction ==
  /\ lam.state # "new" =>
       (lam.state = "ValueError" <=> (~lam.report /\ ~lam.report_all))
  /\ lam.state = "ValueError" =>
       lamCall = NoCall /\ lamStack = <<>> /\ lamTrace = <<>>
  /\ (lam.state = "ready" /\ ~lam.report /\ lam.report_all
        /\ lamCall.op = "report") =>
       /\ Len(lamTrace) <= 1
       /\ lamStack = <<>> =>
            lamTrace = <<[fn |-> "report_all", step |-> lamCall.step,
                          m |-> (lamCall.k :> lamCall.v)]>>

\* C9 witness: a reporter built with report_all alone has returned from a
\* report call.
C9_Witness ==
  /\ lam.state = "ready" /\ ~lam.report /\ lam.report_all
  /\ lamCall.op = "report"
  /\ lamStack = <<>>
  /\ Len(lamTrace) = 1

\* C10: every reader MemoryReporter.reader() has returned shows the
\* reporter's current mapping, also after later report_all and clear calls.
C10_ReaderIsLiveView ==
  \A i \in 1..Len(memReaders) :
    /\ MemKeys(memReaders[i].ref) = MemKeys(memRef)
    /\ \A k \in Tags : MemRead(memReaders[i].ref, k) = MemRead(memRef, k)
    /\ MemKeys(memReaders[i].ref) = DOMAIN memReported

\* C10 witness: a reader obtained before a later write and a reader obtained
\* after it, over a mapping that holds values.
C10_Witness ==
  /\ Len(memReaders) = 2
  /\ memReaders[1].tailed /\ ~memReaders[2].tailed
  /\ MemKeys(memRef) = Tags
  /\ MemRead(memReaders[1].ref, "acc") # <<>>

\* C11: the reporter's mapping holds, for every key reported since the last
\* clear(), exactly the values reported for it, in call order and without
\* their steps, and holds no other key; after clear() it holds no key.
C11_MemoryAppendsInOrder ==
  heap[memRef] =
    [k \in DOMAIN memReported |->
       [i \in 1..Len(memReported[k]) |-> PyNum(memReported[k][i].value)]]

\* C11 witness: one key was reported twice at the same step with different
\* values, another key once.
C11_Witness ==
  /\ backend = "memory"
  /\ DOMAIN memReported = Tags
  /\ Len(memReported["acc"]) = 2
  /\ memReported["acc"][1].step = memReported["acc"][2].step
  /\ memReported["acc"][1].value # memReported["acc"][2].value
  /\ Len(memReported["loss"]) = 1
  /\ Len(heap[memRef]["acc"]) = 2

\* C14: whatever order the store yields them in, the keys SQLReader.keys()
\* yields for a scope are exactly the tags with at least one committed row
\* of that experiment and run, and each is yielded once.
C14_KeysDistinctAndComplete ==
  \A r \in Scopes : \A o \in SQLKeys(r) :
    /\ Range(o) =
         {k \in Tags :
            \E i \in 1..Len(metrics) :
              /\ metrics[i].experiment_id = r[1]
              /\ metrics[i].run_id = r[2]
              /\ metrics[i].tag = k}
    /\ \A i, j \in 1..Len(o) : o[i] = o[j] => i = j

\* C14 witness: a scope holds two rows of one tag at different steps and
\* yields that tag once; a reader of another run of the same experiment,
\* where the tag has no row, yields nothing.
C14_Witness ==
  /\ backend = "sql"
  /\ \E r, q \in Scopes, k \in Tags :
       /\ r[1] = q[1]
       /\ r[2] # q[2]
       /\ \E i, j \in InScope(r) :
            /\ metrics[i].tag = k
            /\ metrics[j].tag = k
            /\ metrics[i].step # metrics[j].step
       /\ SQLKeys(r) = {<<k>>}
       /\ SQLKeys(q) = {<<>>}

\* C16: FSReader.read(k) ends in exactly one of three ways: the file is
\* absent and it returns []; every line decodes and it returns one record
\* per line in file order; some line is malformed and it raises the decode
\* error with no record returned.
C16_ThreeOutcomes ==
  \A k \in Tags :
    LET file == fsFiles[JsonlPath(k)]
        res  == FSRead(k)
        bad  == \E i \in 1..Len(file.lines) : file.lines[i] = Junk
    IN  /\ ~file.exists => res = [raised |-> "none", value |-> <<>>]
        /\ file.exists /\ ~bad =>
             /\ res.raised = "none"
             /\ Len(res.value) = Len(file.lines)
             /\ \A i \in 1..Len(file.lines) :
                  JsonLine(res.value[i]) = file.lines[i]
        /\ file.exists /\ bad =>
             /\ res.raised = "JSONDecodeError"
             /\ res.value = <<>>

\* C16 witness: one file holds a decodable line followed by a malformed
\* one and its read raises; another holds two decodable lines and its read
\* returns both.
C16_Witness ==
  /\ backend = "fs"
  /\ fsFiles[JsonlPath("loss")].lines = <<JsonLine(PyPoint(2, 1)), Junk>>
  /\ FSRead("loss").raised = "JSONDecodeError"
  /\ fsFiles[JsonlPath("acc")].lines =
       <<JsonLine(PyPoint(2, 1)), JsonLine(PyNum(1))>>
  /\ Len(FSRead("acc").value) = 2

\* C15: whatever was reported to a NullReporter, the reader it hands out
\* yields no key and reads every key as the empty list, without an error.
C15_NullWritesUnobservable ==
  /\ NullReaderKeys = <<>>
  /\ \A k \in Tags : NullReaderRead(k) = [raised |-> "none", value |-> <<>>]

\* C15 witness: every key has been reported to the NullReporter and its
\* reader still yields nothing.
C15_Witness ==
  /\ backend = "null"
  /\ nullWritten = Tags
  /\ NullReaderKeys = <<>>

\* C17: every report and report_all call entered on a constructed
\* LambdaReporter returns (the dispatch between the supplied functions and
\* the base defaults does not cycle), and a report_all(step, m) that has
\* returned on a reporter given only report has called the supplied report
\* exactly once for each (key, value) pair of m, and nothing else.
C17_CallsTerminate ==
  /\ (lamStack # <<>>) ~> (lamStack = <<>>)
  /\ [](lam.state = "ready" /\ lam.report /\ ~lam.report_all
          /\ lamCall.op = "report_all" /\ lamStack = <<>>
        => lamTrace =
             [i \in 1..Len(Items(lamCall.m)) |->
                [fn |-> "report", step |-> lamCall.step,
                 m |-> (Items(lamCall.m)[i][1] :> Items(lamCall.m)[i][2])]])

\* C17 witness: a reporter given only report has returned from a
\* report_all of a two-key mapping after two calls of the supplied report.
C17_Witness ==
  /\ backend = "lambda"
  /\ lam.state = "ready"
  /\ lam.report
  /\ ~lam.report_all
  /\ lamCall.op = "report_all"
  /\ DOMAIN lamCall.m = Tags
  /\ lamStack = <<>>
  /\ Len(lamTrace) = 2

\* C18: a step that is a SQLReader.keys, read or read_all call, or a
\* MemoryReporter.reader() call, leaves the committed rows, the reporter's
\* pending session and the reporter's mapping as they were (no row or entry
\* appears for a key that was asked for), so every read gives after the
\* call what it gave before it.
C18_ReadsArePure ==
  [][(\/ SQLReaderNext
      \/ MemReader)
     => /\ metrics' = metrics
        /\ session' = session
        /\ memRef' = memRef
        /\ heap'[memRef'] = heap[memRef]
        /\ \A k \in Tags :
             /\ SQLRead(ReaderScope, k)' = SQLRead(ReaderScope, k)
             /\ MemRead(memRef, k)' = MemRead(memRef, k)
        /\ SQLKeys(ReaderScope)' = SQLKeys(ReaderScope)]_vars

\* C18 witness: the last call on the SQLReader asked for a tag its scope
\* has no row of, while the table holds rows, and the scope still has none.
C18_Witness ==
  /\ backend = "sql"
  /\ lastRead = [op |-> "read", unknown |-> TRUE]
  /\ metrics # <<>>
  /\ \E k \in Tags :
       /\ UnknownTo(ReaderScope, {k}) = {k}
       /\ SQLRead(ReaderScope, k) = {<<>>}

\* C13: a SQLReporter or SQLReader constructor called while the store does
\* not exist raises in the constructor and leaves the store absent; while
\* the store does not exist there is no reporter or reader object, so no
\* report_all has started and no row exists.
C13_ConstructionFailsWithoutStore ==
  /\ lastCtor # NoCtor =>
       /\ lastCtor.raised <=> lastCtor.store = "absent"
       /\ lastCtor.raised => lastCtor.kind \notin sqlObjects
  /\ store = "absent" =>
       /\ sqlObjects = {}
       /\ metrics = <<>>
       /\ ~session.open
       /\ outcome = "none"

\* C13 witness: the reader's constructor was called against the missing
\* store and raised; the store is still missing and no object exists.
C13_Witness ==
  /\ backend = "sql"
  /\ store = "absent"
  /\ lastCtor = [kind |-> "SQLReader", raised |-> TRUE, store |-> "absent"]
  /\ sqlObjects = {}

\* C12: once close() has been called on a component that owns a handle,
\* one time or several, the handle has been released exactly once.
C12_ReleasedExactlyOnce ==
  /\ closeCalls["SQLReporter"] >= 1 => released["SQLReporter"] = 1
  /\ closeCalls["FSReader"] >= 1 => released["FSReader"] = 1
  /\ closeCalls["LambdaReporter"] >= 1 /\ lam.close =>
       released["LambdaReporter"] = 1

\* C12 witness: the SQLReporter was closed and its engine was not released.
C12_Witness ==
  /\ backend = "sql"
  /\ closeCalls["SQLReporter"] = 1
  /\ released["SQLReporter"] = 0
====
